---- MODULE Spec2Model ----
(***************************************************************************)
(* The TypeScript SDK client of autofiller-community                       *)
(* (sdks/typescript/src/client.ts, errors.ts): one client operation at a   *)
(* time, from its call to its outcome.  Time is counted in ticks (ms).     *)
(* An await is a place where the operation is suspended: on fetch          *)
(* (pc = "fetch"), on response.json() (pc = "body") or on the poll sleep   *)
(* (pc = "sleep").  Everything the code runs between two awaits is one     *)
(* action.                                                                 *)
(***************************************************************************)
EXTENDS Integers, Sequences, FiniteSets, TLC

\* ----------------------------------------------------------------- bounds
MaxWaitBound == 3
MaxPollInterval == 2
MaxTimeout == 2

MaxFiles == 3
MaxConcurrency == 4

MaxWaits == 0..MaxWaitBound
PollIntervals == 0..MaxPollInterval
Timeouts == 1..MaxTimeout
\* Date.now() - startTime is only ever compared with maxWait: past the
\* largest maxWait its value no longer matters and the model stops counting.
ElapsedCap == MaxWaitBound + 1

\* ------------------------------------------------------------ data model
\* An optional value is a sequence of length 0 (undefined) or 1.
Absent == << >>
Some(x) == << x >>
IsPresent(o) == o # Absent
Get(o) == o[1]

Ops == {"health", "extract", "extractAsync", "getJob", "waitForJob",
        "listDomainPacks", "getDomainPack"}
JobOps == {"getJob", "waitForJob"}

HttpStatuses == {200, 400, 401, 404, 422, 429, 500}
ok(status) == status >= 200 /\ status <= 299

statusText(status) ==
  CASE status = 200 -> "OK"
    [] status = 400 -> "Bad Request"
    [] status = 401 -> "Unauthorized"
    [] status = 404 -> "Not Found"
    [] status = 422 -> "Unprocessable Entity"
    [] status = 429 -> "Too Many Requests"
    [] status = 500 -> "Internal Server Error"

\* `http_${response.status}`
HttpCode(status) ==
  CASE status = 200 -> "http_200"
    [] status = 400 -> "http_400"
    [] status = 401 -> "http_401"
    [] status = 404 -> "http_404"
    [] status = 422 -> "http_422"
    [] status = 429 -> "http_429"
    [] status = 500 -> "http_500"

\* A timestamp string of the wire: an ISO 8601 date-time (its day since
\* 1970-01-01, hour, minute and UTC offset in hours), or a text that is no
\* date.
IsoTime(day, hour, minute, offsetHours) ==
  [kind |-> "iso", day |-> day, hour |-> hour, minute |-> minute,
   offsetHours |-> offsetHours, text |-> ""]
NotATime == [kind |-> "text", day |-> 0, hour |-> 0, minute |-> 0,
             offsetHours |-> 0, text |-> "not-a-date"]
\* 2024-01-15T10:00Z, and the same instant written with an offset of +02:00.
TenUtc == IsoTime(19737, 10, 0, 0)
NoonPlusTwo == IsoTime(19737, 12, 0, 2)
ElevenUtc == IsoTime(19737, 11, 0, 0)

\* Wire extraction results (ApiExtractionResult): confidence, bounding_boxes,
\* metadata, each field of metadata, and warnings are optional.
WireMetadata(created_at) ==
  [pages |-> Some(2), processing_time_ms |-> Some(350), model_version |-> Some("v7"),
   created_at |-> created_at]
EmptyMetadata ==
  [pages |-> Absent, processing_time_ms |-> Absent, model_version |-> Absent,
   created_at |-> Absent]
BareResult ==
  [id |-> "ext_1", status |-> "completed", domain_pack |-> "invoice",
   data |-> [total |-> "12.50"], confidence |-> Absent, bounding_boxes |-> Absent,
   metadata |-> Absent, warnings |-> Absent]
FullResult(created_at) ==
  [id |-> "ext_1", status |-> "completed", domain_pack |-> "invoice",
   data |-> [total |-> "12.50"], confidence |-> Some([total |-> 97]),
   bounding_boxes |-> Some([total |-> [page |-> 1, x |-> 10, y |-> 20,
                                       width |-> 30, height |-> 8]]),
   metadata |-> Some(WireMetadata(Some(created_at))),
   warnings |-> Some(<< "low_contrast" >>)]
WireResults ==
  { BareResult, [BareResult EXCEPT !.metadata = Some(EmptyMetadata)] }
  \cup { FullResult(t) : t \in {TenUtc, NoonPlusTwo, NotATime} }

JobErrors == { [code |-> "ocr_failed", message |-> "unreadable scan"] }

\* Wire job snapshots (ApiJobStatus) a status request can be answered with.
\* The server is not trusted to keep "result iff completed": a completed
\* snapshot without a result and a failed one without an error are included.
\* A terminal snapshot may carry a completed_at, and a created_at or
\* completed_at that is no date.
Snapshot(status, result, error, created_at, completed_at) ==
  [job_id |-> "job_1", status |-> status, progress |-> Absent, result |-> result,
   error |-> error, created_at |-> created_at, completed_at |-> completed_at]
JobSnapshots ==
  { Snapshot("pending", Absent, Absent, TenUtc, Absent),
    Snapshot("processing", Absent, Absent, TenUtc, Absent) }
  \cup { Snapshot("completed", r, Absent, TenUtc, Some(ElevenUtc)) :
           r \in {Absent} \cup { Some(w) : w \in WireResults } }
  \cup { Snapshot("failed", Absent, e, TenUtc, Absent) :
           e \in {Absent} \cup { Some(j) : j \in JobErrors } }
  \cup { Snapshot("completed", Some(FullResult(TenUtc)), Absent, NotATime,
                  Some(ElevenUtc)),
         Snapshot("failed", Absent, Some(CHOOSE j \in JobErrors : TRUE),
                  TenUtc, Some(NotATime)) }

\* The body of GET /health.
HealthPayloads ==
  { [status |-> "healthy", version |-> "1.4.2", timestamp |-> t] :
      t \in {TenUtc, NotATime} }

TerminalStatuses == {"completed", "failed"}

\* Error bodies the server may send: code and message are each optional and
\* any string; "timeout" and "request_failed" are strings like any other.
ServerCodes == {"quota_exceeded", "timeout", "request_failed"}
ServerMessages == {"slow down"}

\* What response.json() yields.  tag "notjson": the promise rejects (the body
\* is not JSON, or could not be read); "null": the JSON value null; "scalar":
\* a number, string, boolean or array (no code, message or payload property);
\* "object": a JSON object, with the properties the code reads.
NoBody == [tag |-> "notjson", code |-> Absent, message |-> Absent, data |-> Absent]
NullBody == [tag |-> "null", code |-> Absent, message |-> Absent, data |-> Absent]
ScalarBody == [tag |-> "scalar", code |-> Absent, message |-> Absent, data |-> Absent]
ErrorBodies ==
  { [tag |-> "object", code |-> c, message |-> m, data |-> Absent] :
      c \in {Absent} \cup { Some(s) : s \in ServerCodes },
      m \in {Absent} \cup { Some(s) : s \in ServerMessages } }
OpaquePayload == [opaque |-> TRUE]
Payloads(op) ==
  IF op \in JobOps THEN JobSnapshots
  ELSE IF op = "extract" THEN WireResults
  ELSE IF op = "health" THEN HealthPayloads
  ELSE {OpaquePayload}
SuccessBodies(op) ==
  { [tag |-> "object", code |-> Absent, message |-> Absent, data |-> Some(p)] :
      p \in Payloads(op) }
Bodies(op, status) ==
  {NoBody, NullBody} \cup
  (IF ok(status) THEN SuccessBodies(op) ELSE {ScalarBody} \cup ErrorBodies)

AllBodies == UNION { Bodies(o, st) : o \in Ops, st \in HttpStatuses }

\* --------------------------------------------------------------- errors.ts
NoCode == "(no code)"
AutofillerError(message, code) ==
  [name |-> "AutofillerError", code |-> code, message |-> message]
ValidationError(message) ==
  [name |-> "ValidationError", code |-> "validation_error", message |-> message]
AuthenticationError(message) ==
  [name |-> "AuthenticationError", code |-> "authentication_error", message |-> message]
RateLimitError(message) ==
  [name |-> "RateLimitError", code |-> "rate_limit_exceeded", message |-> message]
\* error instanceof AutofillerError
InstanceOfAutofillerError(error) ==
  error.name \in {"AutofillerError", "ValidationError", "AuthenticationError",
                  "RateLimitError", "ExtractionError"}

\* Errors of the runtime, which carry no code.
AbortError == [name |-> "AbortError", code |-> NoCode, message |-> "This operation was aborted"]
FetchFailed == [name |-> "TypeError", code |-> NoCode, message |-> "fetch failed"]
JsonSyntaxError == [name |-> "SyntaxError", code |-> NoCode, message |-> "Unexpected token in JSON"]
NullPropertyError ==
  [name |-> "TypeError", code |-> NoCode, message |-> "Cannot read properties of null"]

\* --------------------------------------------------------------- client.ts
Min(a, b) == IF a < b THEN a ELSE b
Max(a, b) == IF a > b THEN a ELSE b

NoTimer == 0 - 1

\* ----------------------------------------------------- the constructor
DEFAULT_BASE_URL == "https://api.autofiller.dev/v1"
DEFAULT_TIMEOUT == 30000
DEFAULT_MAX_RETRIES == 3

\* The AutofillerConfig objects a caller may pass: apiKey missing, empty or
\* given; the optional fields all omitted or all given (maxRetries: 0 is a
\* value).
ConfigOptionals ==
  { [baseUrl |-> Absent, timeout |-> Absent, maxRetries |-> Absent] }
  \cup { [baseUrl |-> Some("https://self.hosted/v1"), timeout |-> Some(t),
          maxRetries |-> Some(0)] : t \in Timeouts }
ConfigInputs ==
  { [apiKey |-> Some("sk_live"), baseUrl |-> c.baseUrl, timeout |-> c.timeout,
     maxRetries |-> c.maxRetries] : c \in ConfigOptionals }
  \cup { [apiKey |-> k, baseUrl |-> Absent, timeout |-> Absent,
          maxRetries |-> Absent] : k \in {Absent, Some("")} }

\* !config.apiKey
ApiKeyMissing(c) == ~IsPresent(c.apiKey) \/ Get(c.apiKey) = ""

\* A constructor that takes the defaults with || : a given 0 is replaced.
ResolveConfigFalsyDefault(c) ==
  [ apiKey |-> Get(c.apiKey),
    baseUrl |-> IF IsPresent(c.baseUrl) THEN Get(c.baseUrl) ELSE DEFAULT_BASE_URL,
    timeout |-> IF IsPresent(c.timeout) /\ Get(c.timeout) # 0
                THEN Get(c.timeout) ELSE DEFAULT_TIMEOUT,
    maxRetries |-> IF IsPresent(c.maxRetries) /\ Get(c.maxRetries) # 0
                   THEN Get(c.maxRetries) ELSE DEFAULT_MAX_RETRIES ]

\* this.config = { apiKey, baseUrl ?? ..., timeout ?? ..., maxRetries ?? ... }
ResolveConfig(c) ==
  [ apiKey |-> Get(c.apiKey),
    baseUrl |-> IF IsPresent(c.baseUrl) THEN Get(c.baseUrl) ELSE DEFAULT_BASE_URL,
    timeout |-> IF IsPresent(c.timeout) THEN Get(c.timeout) ELSE DEFAULT_TIMEOUT,
    maxRetries |-> IF IsPresent(c.maxRetries) THEN Get(c.maxRetries)
                   ELSE DEFAULT_MAX_RETRIES ]

\* No client: the constructor threw.
NoConfig == [apiKey |-> "", baseUrl |-> "", timeout |-> 0, maxRetries |-> 0]

\* new Date(string): the instant in minutes since the epoch, or an Invalid
\* Date (no exception) when the string is no date.
ParseDate(str) ==
  [ valid |-> str.kind = "iso",
    time |-> IF str.kind = "iso"
             THEN ((str.day * 24 + str.hour - str.offsetHours) * 60) + str.minute
             ELSE 0 ]

\* new Date(Date.now()): the time of the call (2025-11-05T06:00Z here).
DateNow == ParseDate(IsoTime(20397, 6, 0, 0))

\* A normalization that leaves the warnings out.
transformExtractionResultDropsWarnings(response) ==
  LET m == response.metadata IN
  [ id |-> response.id,
    status |-> response.status,
    domainPack |-> response.domain_pack,
    data |-> response.data,
    confidence |-> response.confidence,
    boundingBoxes |-> response.bounding_boxes,
    metadata |->
      [ pages |-> IF IsPresent(m) /\ IsPresent(Get(m).pages)
                  THEN Get(Get(m).pages) ELSE 0,
        processingTimeMs |-> IF IsPresent(m) /\ IsPresent(Get(m).processing_time_ms)
                             THEN Get(Get(m).processing_time_ms) ELSE 0,
        modelVersion |-> IF IsPresent(m) /\ IsPresent(Get(m).model_version)
                         THEN Get(Get(m).model_version) ELSE "unknown",
        createdAt |-> IF IsPresent(m) /\ IsPresent(Get(m).created_at)
                      THEN ParseDate(Get(Get(m).created_at)) ELSE DateNow ],
    warnings |-> Absent ]

\* transformExtractionResult: the wire fields are copied, metadata's fields
\* default when absent (?. and ?? 0, ?? 'unknown', ?? Date.now()), and
\* created_at becomes a Date.
transformExtractionResult(response) ==
  LET m == response.metadata IN
  [ id |-> response.id,
    status |-> response.status,
    domainPack |-> response.domain_pack,
    data |-> response.data,
    confidence |-> response.confidence,
    boundingBoxes |-> response.bounding_boxes,
    metadata |->
      [ pages |-> IF IsPresent(m) /\ IsPresent(Get(m).pages)
                  THEN Get(Get(m).pages) ELSE 0,
        processingTimeMs |-> IF IsPresent(m) /\ IsPresent(Get(m).processing_time_ms)
                             THEN Get(Get(m).processing_time_ms) ELSE 0,
        modelVersion |-> IF IsPresent(m) /\ IsPresent(Get(m).model_version)
                         THEN Get(Get(m).model_version) ELSE "unknown",
        createdAt |-> IF IsPresent(m) /\ IsPresent(Get(m).created_at)
                      THEN ParseDate(Get(Get(m).created_at)) ELSE DateNow ],
    warnings |-> response.warnings ]

\* transformJobStatus: result is transformed when the wire snapshot has one,
\* error is passed through, the timestamps become Dates.
transformJobStatus(response) ==
  [ jobId |-> response.job_id,
    status |-> response.status,
    progress |-> response.progress,
    result |-> IF IsPresent(response.result)
               THEN Some(transformExtractionResult(Get(response.result)))
               ELSE Absent,
    error |-> response.error,
    createdAt |-> ParseDate(response.created_at),
    completedAt |-> IF IsPresent(response.completed_at)
                    THEN Some(ParseDate(Get(response.completed_at)))
                    ELSE Absent ]

\* health(): the response with its timestamp as a Date.
transformHealth(response) ==
  [ status |-> response.status,
    version |-> response.version,
    timestamp |-> ParseDate(response.timestamp) ]

\* The thrown value of handleErrorResponse(response), whose body read gave
\* `body`.  A rejected response.json() leaves errorData = {}; a body that is
\* the JSON value null makes errorData null, and errorData.message throws.
ClassifyStatus(status, message, code) ==
  CASE status = 401 -> AuthenticationError(message)
    [] status = 429 -> RateLimitError(message)
    [] status \in {400, 422} -> ValidationError(message)
    [] OTHER -> AutofillerError(message, code)

handleErrorResponse(status, body) ==
  IF body.tag = "null" THEN NullPropertyError
  ELSE LET message == IF IsPresent(body.message) THEN Get(body.message)
                      ELSE statusText(status)
           code == IF IsPresent(body.code) THEN Get(body.code)
                   ELSE HttpCode(status)
       IN ClassifyStatus(status, message, code)

\* `Request failed: ${error.message}`
RequestFailedMessage(error) == "Request failed: " \o error.message

\* A catch block that wraps whatever it caught, classified errors included.
CatchInRequestWrapsAll(error) ==
  IF error.name = "AbortError"
  THEN AutofillerError("Request timed out", "timeout")
  ELSE AutofillerError(RequestFailedMessage(error), "request_failed")

\* The catch block of request(): what it throws for the caught `error`.
CatchInRequest(error) ==
  IF InstanceOfAutofillerError(error) THEN error
  ELSE IF error.name = "AbortError"
       THEN AutofillerError("Request timed out", "timeout")
       ELSE AutofillerError(RequestFailedMessage(error), "request_failed")

\* request() from the arrival of the response headers on: either it throws
\* (threw, error) or it returns the parsed body.
RequestResult(status, body) ==
  IF ~ok(status)
  THEN [threw |-> TRUE, error |-> CatchInRequest(handleErrorResponse(status, body))]
  ELSE IF body.tag = "notjson"
       THEN [threw |-> TRUE, error |-> CatchInRequest(JsonSyntaxError)]
       ELSE [threw |-> FALSE, error |-> NullPropertyError]

\* What each single-request operation makes of the parsed 2xx body.  Every
\* one reads a property of it first, which throws on null.
TransformResponse(o, payload) ==
  IF o = "extract" THEN transformExtractionResult(payload)
  ELSE IF o = "getJob" THEN transformJobStatus(payload)
  ELSE IF o = "health" THEN transformHealth(payload)
  ELSE payload

\* ---------------------------------------------------- the request builder
\* The file of an ExtractOptions object: a path (its segments), a Buffer or
\* a Blob.
FileInputs ==
  { [kind |-> "path", path |-> <<"docs", "invoice.pdf">>],
    [kind |-> "buffer", path |-> <<>>],
    [kind |-> "blob", path |-> <<>>] }

\* The ExtractOptions / ExtractAsyncOptions objects a caller passes: every
\* file kind with the filename omitted, empty or given; every way of
\* omitting or giving the three extraction options (false and '' are given
\* values); domainPack and webhookUrl given.
NoOptionalFields ==
  [filename |-> Absent, domainPack |-> Absent, includeConfidence |-> Absent,
   includeBoundingBoxes |-> Absent, language |-> Absent, webhookUrl |-> Absent]
PathFile == [kind |-> "path", path |-> <<"docs", "invoice.pdf">>]
WithFile(f, o) ==
  [file |-> f, filename |-> o.filename, domainPack |-> o.domainPack,
   includeConfidence |-> o.includeConfidence,
   includeBoundingBoxes |-> o.includeBoundingBoxes,
   language |-> o.language, webhookUrl |-> o.webhookUrl]
ExtractInputs ==
  { WithFile(f, [NoOptionalFields EXCEPT !.filename = n]) :
      f \in FileInputs, n \in {Absent, Some(""), Some("scan.pdf")} }
  \cup { WithFile(PathFile, [NoOptionalFields EXCEPT !.includeConfidence = c,
                              !.includeBoundingBoxes = b, !.language = l]) :
           c \in {Absent, Some(FALSE)}, b \in {Absent, Some(TRUE)},
           l \in {Absent, Some(""), Some("en")} }
  \cup { WithFile(PathFile, [NoOptionalFields EXCEPT !.domainPack = Some("invoice"),
                              !.webhookUrl = w]) :
           w \in {Absent, Some("https://hooks.example/done")} }

\* if (x) on an optional string: undefined and '' are falsy.
Truthy(x) == IsPresent(x) /\ Get(x) # ""

\* path.basename(filePath)
Basename(p) == p[Len(p)]

\* One part of the multipart body.
Field(name, value, filename) == [name |-> name, value |-> value, filename |-> filename]

\* A file part that accepts a Buffer without a filename, as 'document'.
FilePartUnchecked(options) ==
  [ threw |-> FALSE,
    error |-> ValidationError("filename is required when file is a Buffer"),
    field |-> Field("file", options.file.kind,
                    IF IsPresent(options.filename) THEN options.filename
                    ELSE IF options.file.kind = "path"
                         THEN Some(Basename(options.file.path))
                         ELSE Some("document")) ]

\* buildFormData, "Handle file input": the file part, or the ValidationError
\* for a Buffer without a filename.
FilePart(options) ==
  LET invalid == ValidationError("filename is required when file is a Buffer") IN
  IF options.file.kind = "path"
  THEN [ threw |-> FALSE, error |-> invalid,
         field |-> Field("file", "path",
                         IF IsPresent(options.filename) THEN options.filename
                         ELSE Some(Basename(options.file.path))) ]
  ELSE IF options.file.kind = "buffer"
  THEN [ threw |-> ~Truthy(options.filename), error |-> invalid,
         field |-> Field("file", "buffer", options.filename) ]
  ELSE [ threw |-> FALSE, error |-> invalid,
         field |-> Field("file", "blob",
                         IF IsPresent(options.filename) THEN options.filename
                         ELSE Some("document")) ]

\* JSON.stringify of a boolean, of a string, and of an object given as the
\* sequence of its keys with their values' JSON texts.
JsonBoolean(b) == IF b THEN "true" ELSE "false"
JsonString(str) == "\"" \o str \o "\""
RECURSIVE JsonMembers(_)
JsonMembers(pairs) ==
  IF Len(pairs) = 0 THEN ""
  ELSE JsonString(pairs[1].key) \o ":" \o pairs[1].json
       \o (IF Len(pairs) > 1 THEN "," ELSE "") \o JsonMembers(Tail(pairs))
JsonStringify(pairs) == "{" \o JsonMembers(pairs) \o "}"

Pair(key, json) == [key |-> key, json |-> json]

\* buildFormData, "Options": the extractOptions object.
extractOptions(options) ==
  (IF IsPresent(options.includeConfidence)
   THEN << Pair("include_confidence", JsonBoolean(Get(options.includeConfidence))) >>
   ELSE << >>)
  \o (IF IsPresent(options.includeBoundingBoxes)
      THEN << Pair("include_bounding_boxes",
                   JsonBoolean(Get(options.includeBoundingBoxes))) >>
      ELSE << >>)
  \o (IF Truthy(options.language)
      THEN << Pair("language", JsonString(Get(options.language))) >>
      ELSE << >>)

\* An options part that is appended whether or not any option is set.
OptionsPartAlways(options) ==
  << Field("options", JsonStringify(extractOptions(options)), Absent) >>

\* if (Object.keys(extractOptions).length > 0) formData.append('options', ...)
OptionsPart(options) ==
  IF Len(extractOptions(options)) > 0
  THEN << Field("options", JsonStringify(extractOptions(options)), Absent) >>
  ELSE << >>

\* if (options.domainPack) formData.append('domain_pack', ...)
DomainPackPart(options) ==
  IF Truthy(options.domainPack)
  THEN << Field("domain_pack", Get(options.domainPack), Absent) >>
  ELSE << >>

\* extractAsync: if (options.webhookUrl) formData.append('webhook_url', ...)
WebhookPart(o, options) ==
  IF o = "extractAsync" /\ Truthy(options.webhookUrl)
  THEN << Field("webhook_url", Get(options.webhookUrl), Absent) >>
  ELSE << >>

\* A buildFormData that stores the filename it settled on in the caller's
\* options object.
buildFormDataStoresFilename(options) ==
  LET file == FilePart(options) IN
  IF file.threw
  THEN [threw |-> TRUE, error |-> file.error, formData |-> << >>, options |-> options]
  ELSE [threw |-> FALSE, error |-> file.error,
        formData |-> << file.field >> \o DomainPackPart(options) \o OptionsPart(options),
        options |-> [options EXCEPT !.filename = file.field.filename]]

\* buildFormData(options): it throws, or returns the form data; `options` is
\* the caller's object as the call leaves it (it is only read).
buildFormData(options) ==
  LET file == FilePart(options) IN
  IF file.threw
  THEN [threw |-> TRUE, error |-> file.error, formData |-> << >>, options |-> options]
  ELSE [threw |-> FALSE, error |-> file.error,
        formData |-> << file.field >> \o DomainPackPart(options) \o OptionsPart(options),
        options |-> options]

\* The file handle buildFormData leaves behind: fs.createReadStream(filePath)
\* opens the file of a path input; nothing in the client closes it.
OpenedBy(options) == IF options.file.kind = "path" THEN "open" ELSE "none"

\* The endpoint, method and auth flag each operation passes to request().
JobId == "job_1"
PackName == "invoice"
Endpoint(o) ==
  CASE o = "health" -> "/health"
    [] o = "extract" -> "/extract"
    [] o = "extractAsync" -> "/extract/async"
    [] o \in {"getJob", "waitForJob"} -> "/jobs/" \o JobId
    [] o = "listDomainPacks" -> "/domain-packs"
    [] o = "getDomainPack" -> "/domain-packs/" \o PackName
Method(o) == IF o \in {"extract", "extractAsync"} THEN "POST" ELSE "GET"

\* A health() that leaves auth at its default.
AuthAlways(o) == TRUE

\* auth = true unless the operation passes auth: false (health).
Auth(o) == o # "health"

\* request() up to fetch: the url, the method, the Authorization header and
\* the body handed to fetch.
FetchArguments(cfg, o, formData) ==
  [ url |-> cfg.baseUrl \o Endpoint(o),
    method |-> Method(o),
    authorization |-> IF Auth(o) THEN Some("Bearer " \o cfg.apiKey) ELSE Absent,
    body |-> formData ]

\* A transport that puts every request on the wire twice.
TransmitTwice(log, request) == Append(Append(log, request), request)

\* fetch(url, ...): one HTTP request goes out.
Transmit(log, request) == Append(log, request)

\* waitForJob, the loop condition: Date.now() - startTime < maxWait.
DeadlineOpen(el, mw) == el < mw

JobTimeoutError == AutofillerError("Job timed out waiting for completion", "job_timeout")

\* A loop body that compares the status with a misspelt 'complete': a
\* completed job is never recognised.
JobDecisionStatusTypo(job) ==
  IF job.status = "complete" /\ IsPresent(job.result)
  THEN [act |-> "return", value |-> job.result, error |-> Absent]
  ELSE IF job.status = "failed"
       THEN [act |-> "throw", value |-> Absent,
             error |-> Some(AutofillerError(
                 IF IsPresent(job.error) THEN Get(job.error).message ELSE "Job failed",
                 IF IsPresent(job.error) THEN Get(job.error).code ELSE "job_failed"))]
       ELSE [act |-> "sleep", value |-> Absent, error |-> Absent]

\* A loop body that drops the job's own error and always throws the default.
JobDecisionDropsJobError(job) ==
  IF job.status = "completed" /\ IsPresent(job.result)
  THEN [act |-> "return", value |-> job.result, error |-> Absent]
  ELSE IF job.status = "failed"
       THEN [act |-> "throw", value |-> Absent,
             error |-> Some(AutofillerError("Job failed", "job_failed"))]
       ELSE [act |-> "sleep", value |-> Absent, error |-> Absent]

\* waitForJob, the body of the loop after getJob returned `job`.
JobDecision(job) ==
  IF job.status = "completed" /\ IsPresent(job.result)
  THEN [act |-> "return", value |-> job.result, error |-> Absent]
  ELSE IF job.status = "failed"
       THEN [act |-> "throw", value |-> Absent,
             error |-> Some(AutofillerError(
                 IF IsPresent(job.error) THEN Get(job.error).message ELSE "Job failed",
                 IF IsPresent(job.error) THEN Get(job.error).code ELSE "job_failed"))]
       ELSE [act |-> "sleep", value |-> Absent, error |-> Absent]

\* A sleep whose promise is never resolved: no timer is armed.
SleepNeverResolves(ms) == NoTimer

\* sleep(ms): setTimeout with a delay below 1 ms waits 1 ms.
SleepDelay(ms) == Max(ms, 1)

\* A waitForJob that catches a failed status request and reports the job as
\* timed out instead.
OnRequestErrorAsJobTimeout(o, e) ==
  IF o = "waitForJob" THEN JobTimeoutError ELSE e

\* What operation o throws when its `await this.request(...)` threw e: no
\* operation has a try/catch around it (waitForJob awaits getJob, which
\* awaits request), so e itself leaves the call.
OnRequestError(o, e) == e

\* A request() without its clearTimeout calls: the abort timer stays armed.
clearTimeoutForgotten(timer) == timer

\* clearTimeout(timeoutId): the timer is no longer armed.
clearTimeout(timer) == NoTimer

\* A sleep whose promise is resolved at once, whatever is left on its timer.
SleepOverAtOnce(timer) == TRUE

\* sleep(ms)'s promise resolves when its timer fires.
SleepOver(timer) == timer = 0

Returned(v) == [kind |-> "ok", value |-> Some(v), error |-> Absent]
Thrown(e) == [kind |-> "error", value |-> Absent, error |-> Some(e)]
Pending == [kind |-> "pending", value |-> Absent, error |-> Absent]

\* ------------------------------------------------------------------ state
VARIABLES
  given,         \* the AutofillerConfig object passed to the constructor
  config,        \* the client's resolved configuration
  op,            \* the operation called ("none" before the call)
  pc,            \* "idle", "fetch", "body", "sleep" or "done"
  maxWait,       \* waitForJob's argument
  pollInterval,  \* waitForJob's argument
  elapsed,       \* Date.now() - startTime of waitForJob
  reqTimer,      \* ticks left on request()'s abort timer, NoTimer when cleared
  sleepTimer,    \* ticks left on sleep()'s timer, NoTimer when none
  requests,      \* HTTP requests issued by the operation
  resp,          \* status of the response to the last request, when it came
  body,          \* what response.json() gave for it, when it came
  fault,         \* how fetch rejected: "none", "network" or "abort"
  seen,          \* the job snapshots getJob returned to waitForJob, in order
  termInTime,    \* a terminal snapshot was seen while elapsed <= maxWait
  options,       \* the caller's options object (extract, extractAsync), as it is now
  passed,        \* that object as it was when the caller passed it
  sent,          \* the HTTP requests handed to fetch, in order
  outcome,       \* what the operation returned or threw
  handle,        \* the file opened for the body: "none", "open" or "closed"
  cancelled,     \* the caller has raised its cancellation signal
  now,           \* the clock of two concurrent waitForJob calls
  waits,         \* the two concurrent waitForJob calls, each with its locals
  files,         \* processBatch's argument
  concurrency,   \* processBatch's argument
  queue,         \* processBatch's queue
  results,       \* processBatch's results
  workers,       \* processBatch's workers: what each is doing
  extracted,     \* the files client.extract was called with, in order
  batch          \* processBatch's promise: "none", "pending" or "resolved"

\* A single client operation, two concurrent waitForJob calls and a
\* processBatch run are three scenarios; each leaves the state of the
\* others as it is.
concurrentVars == << now, waits >>
batchVars == << files, concurrency, queue, results, workers, extracted, batch >>
clientVars == << given, config, op, pc, maxWait, pollInterval, elapsed, reqTimer,
                sleepTimer, requests, resp, body, fault, seen, termInTime, options,
                passed, sent, outcome, handle, cancelled >>
vars == << clientVars, concurrentVars, batchVars >>

NoConcurrentWaits == now = 0 /\ waits = << >>
NoBatch ==
  /\ files = << >> /\ concurrency = 0 /\ queue = << >> /\ results = << >>
  /\ workers = << >> /\ extracted = << >> /\ batch = "none"

\* The state after new AutofillerClient(given): a client, or the
\* constructor's ValidationError.
ClientInit(inputs) ==
  /\ given \in inputs
  /\ IF ApiKeyMissing(given)
     THEN /\ config = NoConfig
          /\ op = "constructor"
          /\ pc = "done"
          /\ outcome = Thrown(ValidationError("API key is required"))
     ELSE /\ config = ResolveConfig(given)
          /\ op = "none"
          /\ pc = "idle"
          /\ outcome = Pending
  /\ maxWait = 0
  /\ pollInterval = 0
  /\ elapsed = 0
  /\ reqTimer = NoTimer
  /\ sleepTimer = NoTimer
  /\ requests = 0
  /\ resp = Absent
  /\ body = Absent
  /\ fault = "none"
  /\ seen = << >>
  /\ termInTime = FALSE
  /\ options = Absent
  /\ passed = Absent
  /\ sent = << >>
  /\ handle = "none"
  /\ cancelled = FALSE

Init ==
  /\ ClientInit(ConfigInputs)
  /\ NoConcurrentWaits
  /\ NoBatch

\* request() up to its await of fetch: the abort timer is armed with
\* config.timeout and the request is sent.
SendRequest(o, formData) ==
  /\ pc' = "fetch"
  /\ reqTimer' = config.timeout
  /\ sleepTimer' = NoTimer
  /\ requests' = requests + 1
  /\ sent' = Transmit(sent, FetchArguments(config, o, formData))
  /\ resp' = Absent
  /\ body' = Absent
  /\ fault' = "none"
  /\ outcome' = outcome

\* The operation ends with outcome o; no timer of it is left armed here
\* (clearTimeout ran on every path of request(), and no sleep is pending).
Finish(o) ==
  /\ pc' = "done"
  /\ outcome' = o
  /\ reqTimer' = clearTimeout(reqTimer)
  /\ sleepTimer' = NoTimer
  /\ requests' = requests
  /\ sent' = sent

\* health, getJob, listDomainPacks, getDomainPack: one request.
Call(o) ==
  /\ pc = "idle"
  /\ o \in Ops \ {"extract", "extractAsync", "waitForJob"}
  /\ op' = o
  /\ SendRequest(o, Absent)
  /\ UNCHANGED << handle, cancelled, concurrentVars, batchVars >>
  /\ UNCHANGED << given, config, maxWait, pollInterval, elapsed, seen, termInTime,
                  options, passed >>

\* extract(opts), extractAsync(opts): buildFormData (and the webhook part),
\* then one request.
CallExtract(o, opts) ==
  /\ pc = "idle"
  /\ o \in {"extract", "extractAsync"}
  /\ o = "extract" => opts.webhookUrl = Absent
  /\ op' = o
  /\ passed' = Some(opts)
  /\ LET built == buildFormData(opts) IN
     /\ options' = Some(built.options)
     /\ handle' = OpenedBy(opts)
     /\ IF built.threw
        THEN Finish(Thrown(built.error)) /\ UNCHANGED << resp, body, fault >>
        ELSE SendRequest(o, Some(built.formData \o WebhookPart(o, opts)))
  /\ UNCHANGED << cancelled, concurrentVars, batchVars >>
  /\ UNCHANGED << given, config, maxWait, pollInterval, elapsed, seen, termInTime >>

\* The head of waitForJob's loop at elapsed time el: the next status request,
\* or the job_timeout failure after the loop.
LoopHead(el, mw) ==
  IF DeadlineOpen(el, mw)
  THEN SendRequest("waitForJob", Absent)
  ELSE Finish(Thrown(JobTimeoutError)) /\ UNCHANGED << resp, body, fault >>

\* waitForJob(jobId, pi, mw) up to its first await.
WaitForJob(pi, mw) ==
  /\ pc = "idle"
  /\ op' = "waitForJob"
  /\ pollInterval' = pi
  /\ maxWait' = mw
  /\ elapsed' = 0
  /\ LoopHead(0, mw)
  /\ UNCHANGED << handle, cancelled, concurrentVars, batchVars >>
  /\ UNCHANGED << given, config, seen, termInTime, options, passed >>

\* Time passes while the operation is suspended: one millisecond while
\* waitForJob's elapsed time is still counted, and otherwise (nothing reads
\* the clock) the time left to the next due timer.  A timer that is due
\* fires (or its await is overtaken) before more time passes.
TickLength ==
  IF op = "waitForJob" /\ elapsed < ElapsedCap THEN 1
  ELSE IF reqTimer > 0 /\ sleepTimer > 0 THEN Min(reqTimer, sleepTimer)
  ELSE IF reqTimer > 0 THEN reqTimer
  ELSE IF sleepTimer > 0 THEN sleepTimer
  ELSE 1

Tick ==
  /\ pc \in {"fetch", "body", "sleep"}
  /\ reqTimer # 0
  /\ sleepTimer # 0
  /\ reqTimer' = IF reqTimer > 0 THEN reqTimer - TickLength ELSE reqTimer
  /\ sleepTimer' = IF sleepTimer > 0 THEN sleepTimer - TickLength ELSE sleepTimer
  /\ elapsed' = IF op = "waitForJob" THEN Min(elapsed + TickLength, ElapsedCap)
                ELSE elapsed
  /\ UNCHANGED << handle, cancelled, concurrentVars, batchVars >>
  /\ UNCHANGED << given, config, op, pc, maxWait, pollInterval, requests, resp, body,
                  fault, seen, termInTime, options, passed, sent, outcome >>

\* fetch resolves with a response of the given status: clearTimeout, then
\* the body is awaited (in handleErrorResponse when the status is not 2xx).
FetchResolve(status) ==
  /\ pc = "fetch"
  /\ resp' = Some(status)
  /\ reqTimer' = clearTimeout(reqTimer)
  /\ pc' = "body"
  /\ UNCHANGED << handle, cancelled, concurrentVars, batchVars >>
  /\ UNCHANGED << given, config, op, maxWait, pollInterval, elapsed, sleepTimer,
                  requests, body, fault, seen, termInTime, options, passed, sent,
                  outcome >>

\* fetch rejects without a response (DNS, connection refused, ...).
FetchNetworkError ==
  /\ pc = "fetch"
  /\ fault' = "network"
  /\ Finish(Thrown(OnRequestError(op, CatchInRequest(FetchFailed))))
  /\ UNCHANGED << handle, cancelled, concurrentVars, batchVars >>
  /\ UNCHANGED << given, config, op, maxWait, pollInterval, elapsed, resp, body,
                  seen, termInTime, options, passed >>

\* The abort timer fires before fetch resolved: controller.abort() makes
\* fetch reject with an AbortError.
RequestTimeout ==
  /\ pc = "fetch"
  /\ reqTimer = 0
  /\ fault' = "abort"
  /\ Finish(Thrown(OnRequestError(op, CatchInRequest(AbortError))))
  /\ UNCHANGED << handle, cancelled, concurrentVars, batchVars >>
  /\ UNCHANGED << given, config, op, maxWait, pollInterval, elapsed, resp, body,
                  seen, termInTime, options, passed >>

\* waitForJob after getJob returned `job`.
AfterGetJob(job) ==
  LET d == JobDecision(job) IN
  /\ seen' = Append(seen, job)
  /\ termInTime' = (termInTime \/
                    (job.status \in TerminalStatuses /\ elapsed <= maxWait))
  /\ IF d.act = "return" THEN Finish(Returned(Get(d.value)))
     ELSE IF d.act = "throw" THEN Finish(Thrown(Get(d.error)))
     ELSE /\ pc' = "sleep"
          /\ sleepTimer' = SleepDelay(pollInterval)
          /\ UNCHANGED << reqTimer, requests, sent, outcome >>

\* response.json() settles with b: request() returns or throws, and the
\* operation runs on to its end or to its next await.
BodyArrive(b) ==
  /\ pc = "body"
  /\ b \in Bodies(op, Get(resp))
  /\ body' = Some(b)
  /\ LET r == RequestResult(Get(resp), b) IN
     IF r.threw
     THEN Finish(Thrown(OnRequestError(op, r.error)))
          /\ UNCHANGED << seen, termInTime >>
     ELSE IF b.tag = "null"
     THEN Finish(Thrown(NullPropertyError)) /\ UNCHANGED << seen, termInTime >>
     ELSE IF op = "waitForJob"
     THEN AfterGetJob(transformJobStatus(Get(b.data)))
     ELSE Finish(Returned(TransformResponse(op, Get(b.data))))
          /\ UNCHANGED << seen, termInTime >>
  /\ UNCHANGED << handle, cancelled, concurrentVars, batchVars >>
  /\ UNCHANGED << given, config, op, maxWait, pollInterval, elapsed, resp, fault,
                  options, passed >>

\* While fetch is pending the runtime reads the stream of the body to its
\* end, and the stream closes its file (autoClose).
ReadStreamEnd ==
  /\ pc = "fetch"
  /\ handle = "open"
  /\ handle' = "closed"
  /\ UNCHANGED << given, config, op, pc, maxWait, pollInterval, elapsed, reqTimer,
                  sleepTimer, requests, resp, body, fault, seen, termInTime, options,
                  passed, sent, outcome, cancelled, concurrentVars, batchVars >>

\* The poll sleep is over: back to the head of the loop.
Wake ==
  /\ pc = "sleep"
  /\ SleepOver(sleepTimer)
  /\ LoopHead(elapsed, maxWait)
  /\ UNCHANGED << handle, cancelled, concurrentVars, batchVars >>
  /\ UNCHANGED << given, config, op, maxWait, pollInterval, elapsed, seen, termInTime,
                  options, passed >>

Next ==
  \/ \E o \in Ops : Call(o)
  \/ \E o \in Ops, opts \in ExtractInputs : CallExtract(o, opts)
  \/ \E pi \in PollIntervals, mw \in MaxWaits : WaitForJob(pi, mw)
  \/ Tick
  \/ \E status \in HttpStatuses : FetchResolve(status)
  \/ FetchNetworkError
  \/ RequestTimeout
  \/ \E b \in AllBodies : BodyArrive(b)
  \/ Wake
  \/ ReadStreamEnd

Spec == Init /\ [][Next]_vars

\* The runtime runs a ready continuation and fires a due timer, and time
\* passes; the server answers every request it is sent.
FairSpec ==
  /\ Spec
  /\ WF_vars(Tick)
  /\ WF_vars(Wake)
  /\ WF_vars(RequestTimeout)
  /\ WF_vars(\E status \in HttpStatuses : FetchResolve(status))
  /\ WF_vars(\E b \in AllBodies : BodyArrive(b))

\* The caller raises its cancellation signal while an operation is under
\* way.  No method of the client takes a signal (waitForJob takes jobId,
\* pollInterval, maxWait; request() aborts only through its own controller
\* and timer), so nothing of the operation changes.
Cancel ==
  /\ pc \in {"fetch", "body", "sleep"}
  /\ ~cancelled
  /\ cancelled' = TRUE
  /\ UNCHANGED << given, config, op, pc, maxWait, pollInterval, elapsed, reqTimer,
                  sleepTimer, requests, resp, body, fault, seen, termInTime, options,
                  passed, sent, outcome, handle, concurrentVars, batchVars >>

\* The client with a caller that may cancel.
CancelNext == Next \/ Cancel
CancelSpec == Init /\ [][CancelNext]_vars

\* ------------------------------------------ two concurrent waitForJob calls
\* Two callers call waitForJob for the same job id on one client.  Each call
\* has the locals of waitForJob (startTime, job) and its own awaits; the
\* client's only field is the configuration.  A status request is answered
\* with a snapshot or fails; the request timeout (30000 ms by default) is
\* beyond the times looked at.
WaitIds == {1, 2}
ConcurrentMaxWaits == {1, 2}
ConcurrentPollIntervals == {1, 2}
NowCap == ElapsedCap
ConcurrentSnapshots ==
  { Snapshot("pending", Absent, Absent, TenUtc, Absent),
    Snapshot("completed", Some(BareResult), Absent, TenUtc, Some(ElevenUtc)),
    Snapshot("failed", Absent, Some(CHOOSE j \in JobErrors : TRUE), TenUtc, Absent) }

\* A call not made yet.  calledAt, answered and endedAt are not locals of
\* the code: they record when the call was made, what the server answered
\* to the call's own requests and when the call ended.
IdleWait ==
  [ pc |-> "idle", pollInterval |-> 0, maxWait |-> 0, startTime |-> 0,
    wakeAt |-> 0, requests |-> 0, seen |-> << >>, outcome |-> Pending,
    calledAt |-> 0, answered |-> << >>, endedAt |-> 0, requestFailed |-> FALSE ]

DefaultConfigInput ==
  [apiKey |-> Some("sk_live"), baseUrl |-> Absent, timeout |-> Absent,
   maxRetries |-> Absent]

ConcurrentInit ==
  /\ ClientInit({DefaultConfigInput})
  /\ now = 0
  /\ waits = [i \in WaitIds |-> IdleWait]
  /\ NoBatch

\* A startTime kept in a field of the client: a call made while another is
\* running takes over that call's start.
StartTimeOfRunningCall(ws, i, t) ==
  IF \E j \in WaitIds : j # i /\ ws[j].pc \in {"fetch", "sleep"}
  THEN ws[CHOOSE j \in WaitIds : j # i /\ ws[j].pc \in {"fetch", "sleep"}].startTime
  ELSE t

\* const startTime = Date.now(), a local of the call.
StartTime(ws, i, t) == t

\* Call w at the head of its loop at time t: the next status request, or
\* job_timeout.
ConcurrentLoopHead(w, t) ==
  IF DeadlineOpen(t - w.startTime, w.maxWait)
  THEN [w EXCEPT !.pc = "fetch", !.requests = @ + 1]
  ELSE [w EXCEPT !.pc = "done", !.outcome = Thrown(JobTimeoutError), !.endedAt = t]

ConcurrentWaitForJob(i, pi, mw) ==
  /\ waits # << >>
  /\ waits[i].pc = "idle"
  /\ waits' = [waits EXCEPT ![i] =
       ConcurrentLoopHead([IdleWait EXCEPT !.pollInterval = pi, !.maxWait = mw,
                                            !.startTime = StartTime(waits, i, now),
                                            !.calledAt = now], now)]
  /\ UNCHANGED << now, clientVars, batchVars >>

\* The status request of call i is answered with snapshot: the loop body.
ConcurrentAnswer(i, snapshot) ==
  /\ waits # << >>
  /\ waits[i].pc = "fetch"
  /\ LET w == waits[i]
         job == transformJobStatus(snapshot)
         d == JobDecision(job)
         got == [w EXCEPT !.seen = Append(@, job), !.answered = Append(@, snapshot)]
     IN waits' = [waits EXCEPT ![i] =
          IF d.act = "return"
          THEN [got EXCEPT !.pc = "done", !.outcome = Returned(Get(d.value)),
                           !.endedAt = now]
          ELSE IF d.act = "throw"
          THEN [got EXCEPT !.pc = "done", !.outcome = Thrown(Get(d.error)),
                           !.endedAt = now]
          ELSE [got EXCEPT !.pc = "sleep", !.wakeAt = now + SleepDelay(w.pollInterval)]]
  /\ UNCHANGED << now, clientVars, batchVars >>

\* The status request of call i fails on the network.
ConcurrentRequestFails(i) ==
  /\ waits # << >>
  /\ waits[i].pc = "fetch"
  /\ waits' = [waits EXCEPT ![i] =
       [@ EXCEPT !.pc = "done",
                 !.outcome = Thrown(OnRequestError("waitForJob",
                                                   CatchInRequest(FetchFailed))),
                 !.endedAt = now, !.requestFailed = TRUE]]
  /\ UNCHANGED << now, clientVars, batchVars >>

\* The sleep of call i is over.
ConcurrentWake(i) ==
  /\ waits # << >>
  /\ waits[i].pc = "sleep"
  /\ now >= waits[i].wakeAt
  /\ waits' = [waits EXCEPT ![i] = ConcurrentLoopHead(@, now)]
  /\ UNCHANGED << now, clientVars, batchVars >>

\* One millisecond passes.
ConcurrentTick ==
  /\ waits # << >>
  /\ now < NowCap
  /\ \E i \in WaitIds : waits[i].pc # "done"
  /\ now' = now + 1
  /\ UNCHANGED << waits, clientVars, batchVars >>

ConcurrentNext ==
  \/ \E i \in WaitIds, pi \in ConcurrentPollIntervals, mw \in ConcurrentMaxWaits :
       ConcurrentWaitForJob(i, pi, mw)
  \/ \E i \in WaitIds, snapshot \in ConcurrentSnapshots : ConcurrentAnswer(i, snapshot)
  \/ \E i \in WaitIds : ConcurrentRequestFails(i)
  \/ \E i \in WaitIds : ConcurrentWake(i)
  \/ ConcurrentTick

ConcurrentSpec == ConcurrentInit /\ [][ConcurrentNext]_vars

\* ------------------------------------------------------------ processBatch
\* examples/typescript/src/03-batch-processing.ts.  What awaiting
\* client.extract gives a worker: a result with its data, a result whose
\* data the server left out (transformExtractionResult passes it on as it
\* is), or a thrown error with its message.
BatchFileNames == << "a.pdf", "b.pdf", "c.pdf", "d.pdf", "e.pdf" >>
BatchInputs == { SubSeq(BatchFileNames, 1, n) : n \in 0..MaxFiles }
Concurrencies == 0..MaxConcurrency
ExtractOutcomes ==
  { [kind |-> "ok", hasData |-> TRUE, message |-> ""],
    [kind |-> "ok", hasData |-> FALSE, message |-> ""],
    [kind |-> "error", hasData |-> FALSE, message |-> "Request timed out"] }

BatchInit ==
  /\ ClientInit({DefaultConfigInput})
  /\ NoConcurrentWaits
  /\ NoBatch

\* One worker per file, whatever the concurrency.
WorkerCountPerFile(c, n) == n

\* Math.min(concurrency, files.length)
WorkerCount(c, n) == Min(c, n)

\* The entries of results.
SuccessEntry(file) == [file |-> file, success |-> TRUE, error |-> Absent]
FailureEntry(file, message) == [file |-> file, success |-> FALSE, error |-> Some(message)]

\* A catch block that passes the error on instead of recording it.
CatchBlockRethrows(file, message) == [entries |-> << >>, rethrown |-> TRUE]

\* catch (error): the failure is recorded, nothing is rethrown.
CatchBlock(file, message) ==
  [entries |-> << FailureEntry(file, message) >>, rethrown |-> FALSE]

\* The try block after the await, and the catch block when it throws: the
\* entries pushed, and whether the worker's promise rejects.  With a result
\* the success entry is pushed and then Object.keys(result.data) is
\* evaluated for the log line, which throws a TypeError inside the try when
\* data is missing.
TryCatch(file, o) ==
  IF o.kind = "error" THEN CatchBlock(file, o.message)
  ELSE IF o.hasData THEN [entries |-> << SuccessEntry(file) >>, rethrown |-> FALSE]
  ELSE LET c == CatchBlock(file, "Cannot convert undefined or null to object")
       IN [entries |-> << SuccessEntry(file) >> \o c.entries, rethrown |-> c.rethrown]

\* processBatch(client, fs, c) up to its await: the workers are created and
\* each runs processOne up to its first await, taking a file off the queue
\* and calling client.extract.
ProcessBatch(fs, c) ==
  /\ batch = "none"
  /\ LET n == WorkerCount(c, Len(fs)) IN
     /\ workers' = [w \in 1..n |-> [pc |-> "await", at |-> w]]
     /\ extracted' = [k \in 1..n |-> [file |-> fs[k], outcome |-> "inflight"]]
     /\ queue' = SubSeq(fs, n + 1, Len(fs))
  /\ files' = fs
  /\ concurrency' = c
  /\ results' = << >>
  /\ batch' = "pending"
  /\ UNCHANGED << clientVars, concurrentVars >>

\* The extract call worker w awaits settles with o: the rest of the loop
\* body, then the loop condition, and the next file if there is one.
ExtractSettles(w, o) ==
  /\ batch = "pending"
  /\ w \in DOMAIN workers
  /\ workers[w].pc = "await"
  /\ LET at == workers[w].at
         done == TryCatch(extracted[at].file, o)
         settled == [extracted EXCEPT ![at].outcome =
                       IF o.kind = "error" THEN "threw"
                       ELSE IF o.hasData THEN "data" ELSE "nodata"]
     IN /\ results' = results \o done.entries
        /\ IF done.rethrown
           THEN /\ workers' = [workers EXCEPT ![w].pc = "rejected"]
                /\ extracted' = settled
                /\ queue' = queue
           ELSE IF Len(queue) > 0
           THEN /\ workers' = [workers EXCEPT ![w].at = Len(extracted) + 1]
                /\ extracted' = Append(settled, [file |-> Head(queue),
                                                  outcome |-> "inflight"])
                /\ queue' = Tail(queue)
           ELSE /\ workers' = [workers EXCEPT ![w].pc = "done"]
                /\ extracted' = settled
                /\ queue' = queue
  /\ UNCHANGED << files, concurrency, batch, clientVars, concurrentVars >>

\* await Promise.all(workers): it rejects once a worker has rejected, and
\* resolves when every worker is done; then processBatch returns results.
PromiseAllSettles ==
  /\ batch = "pending"
  /\ \/ \E w \in DOMAIN workers : workers[w].pc = "rejected"
     \/ \A w \in DOMAIN workers : workers[w].pc = "done"
  /\ batch' = IF \E w \in DOMAIN workers : workers[w].pc = "rejected"
              THEN "rejected" ELSE "resolved"
  /\ UNCHANGED << files, concurrency, queue, results, workers, extracted,
                  clientVars, concurrentVars >>

BatchNext ==
  \/ \E fs \in BatchInputs, c \in Concurrencies : ProcessBatch(fs, c)
  \/ \E w \in 1..MaxFiles, o \in ExtractOutcomes : ExtractSettles(w, o)
  \/ PromiseAllSettles

BatchSpec == BatchInit /\ [][BatchNext]_vars

\* Every extract call settles and a settled promise runs its continuation.
BatchFairSpec ==
  /\ BatchSpec
  /\ WF_vars(\E w \in 1..MaxFiles, o \in ExtractOutcomes : ExtractSettles(w, o))
  /\ WF_vars(PromiseAllSettles)

\* The runtime alone is fair: time passes, a due timer fires and a ready
\* continuation runs; the server may leave a request or a body unfinished
\* for ever.
TimerFairSpec ==
  /\ Spec
  /\ WF_vars(Tick)
  /\ WF_vars(Wake)
  /\ WF_vars(RequestTimeout)

\* ----------------------------------------------------------------- claims
LastSeen == seen[Len(seen)]
NonTerminalBefore(n) ==
  \A i \in 1..(n - 1) : seen[i].status \in {"pending", "processing"}
\* The wire snapshot the last response carried.
LastWire == Get(Get(body).data)
\* The error the operation ended with.
Err == Get(outcome.error)

\* The client result v holds every field of the wire result w: the
\* required ones and confidence, bounding_boxes, warnings unchanged
\* (present or absent), each metadata field copied when present and
\* defaulted when absent.
NormalizedFrom(w, v) ==
  /\ v.id = w.id
  /\ v.status = w.status
  /\ v.domainPack = w.domain_pack
  /\ v.data = w.data
  /\ v.confidence = w.confidence
  /\ v.boundingBoxes = w.bounding_boxes
  /\ v.warnings = w.warnings
  /\ LET m == w.metadata IN
     /\ v.metadata.pages =
          IF m # Absent /\ Get(m).pages # Absent THEN Get(Get(m).pages) ELSE 0
     /\ v.metadata.processingTimeMs =
          IF m # Absent /\ Get(m).processing_time_ms # Absent
          THEN Get(Get(m).processing_time_ms) ELSE 0
     /\ v.metadata.modelVersion =
          IF m # Absent /\ Get(m).model_version # Absent
          THEN Get(Get(m).model_version) ELSE "unknown"

\* C1: in waitForJob, when the polls before the N-th returned pending or
\* processing and the N-th returns completed with an embedded result, the
\* call has returned that result, normalized (each wire field copied,
\* absent metadata defaulted), and N status requests were issued in all:
\* the call is over, so none follows.
C1_CompletedOnNthPoll ==
  ( /\ op = "waitForJob"
    /\ Len(seen) > 0
    /\ LastSeen.status = "completed"
    /\ IsPresent(LastSeen.result)
    /\ NonTerminalBefore(Len(seen)) )
  => /\ pc = "done"
     /\ outcome.kind = "ok"
     /\ requests = Len(seen)
     /\ NormalizedFrom(Get(LastWire.result), Get(outcome.value))

\* processing, then completed with a result: returned after 2 requests.
C1_Witness ==
  /\ op = "waitForJob" /\ pc = "done" /\ outcome.kind = "ok"
  /\ Len(seen) = 2 /\ requests = 2
  /\ seen[1].status = "processing" /\ seen[2].status = "completed"
  /\ Get(outcome.value).metadata.modelVersion = "unknown"

\* C2: once a poll of a waitForJob call has observed a terminal status
\* (completed or failed, with or without a result), the call issues no
\* further status request.
C2_NoPollAfterTerminal ==
  [][ (op = "waitForJob" /\ \E i \in 1..Len(seen) : seen[i].status \in TerminalStatuses)
      => requests' = requests ]_vars

\* C3: in waitForJob, when a poll returns failed, the call has failed with
\* an AutofillerError carrying the job's error code and message, or
\* job_failed and "Job failed" when the snapshot has no error, and no
\* further status request is issued.
C3_FailedJobThrows ==
  (op = "waitForJob" /\ Len(seen) > 0 /\ LastSeen.status = "failed")
  => /\ pc = "done"
     /\ outcome.kind = "error"
     /\ requests = Len(seen)
     /\ Err.name = "AutofillerError"
     /\ IF IsPresent(LastWire.error)
        THEN /\ Err.code = Get(LastWire.error).code
             /\ Err.message = Get(LastWire.error).message
        ELSE /\ Err.code = "job_failed"
             /\ Err.message = "Job failed"

C3_Witness ==
  /\ op = "waitForJob" /\ pc = "done" /\ Len(seen) = 2
  /\ seen[1].status = "pending" /\ seen[2].status = "failed"
  /\ seen[2].error = Absent
  /\ outcome.kind = "error" /\ Err.code = "job_failed"

\* C4: a waitForJob call whose status requests all complete ends; when
\* every poll returned pending or processing it ends with the AutofillerError
\* job_timeout, and a call that has ended issues no further request.
C4_NonTerminalTimesOut ==
  /\ (op = "waitForJob") ~> (pc = "done")
  /\ []( ( /\ op = "waitForJob" /\ pc = "done"
           /\ requests = Len(seen)
           /\ NonTerminalBefore(Len(seen) + 1) )
         => ( /\ outcome.kind = "error"
              /\ Err.name = "AutofillerError"
              /\ Err.code = "job_timeout" ) )
  /\ [][ pc = "done" => requests' = requests ]_vars

\* Three polls answered pending or processing, then job_timeout.
C4_Witness ==
  /\ op = "waitForJob" /\ pc = "done" /\ requests = 3 /\ Len(seen) = 3
  /\ NonTerminalBefore(4)
  /\ outcome.kind = "error" /\ Err.code = "job_timeout"

\* C5: in waitForJob, when the elapsed time exceeds maxWait and no terminal
\* status was observed before that moment, the call ends with job_timeout,
\* not with the result or the job failure of a response that arrived after
\* the deadline.
C5_DeadlineDecidesOutcome ==
  ( /\ op = "waitForJob" /\ pc = "done"
    /\ requests = Len(seen)
    /\ elapsed > maxWait
    /\ ~termInTime )
  => (outcome.kind = "error" /\ Err.code = "job_timeout")

\* The error kind the claims' table gives a non-2xx status.
KindForStatus(status) ==
  CASE status = 401 -> "AuthenticationError"
    [] status = 429 -> "RateLimitError"
    [] status \in {400, 422} -> "ValidationError"
    [] OTHER -> "AutofillerError"

NonSuccessDone ==
  pc = "done" /\ IsPresent(resp) /\ ~ok(Get(resp)) /\ IsPresent(body)

\* C6: for every non-2xx response, whatever its body and whatever the
\* operation, the kind of the error raised is given by the status alone:
\* 401 AuthenticationError, 429 RateLimitError, 400 and 422 ValidationError,
\* any other status the generic AutofillerError.
C6_KindFromStatusAlone ==
  NonSuccessDone
  => (outcome.kind = "error" /\ Err.name = KindForStatus(Get(resp)))

\* C7: the error raised for a non-2xx response has the server's message when
\* the body has one and the status reason phrase otherwise; a generic
\* AutofillerError has the server's code when present, else http_<status>.
C7_MessageAndCode ==
  NonSuccessDone
  => /\ outcome.kind = "error"
     /\ Err.message = (IF IsPresent(Get(body).message) THEN Get(Get(body).message)
                       ELSE statusText(Get(resp)))
     /\ Err.name = "AutofillerError"
        => Err.code = (IF IsPresent(Get(body).code) THEN Get(Get(body).code)
                       ELSE HttpCode(Get(resp)))

\* The kind a caller reads from an error's type and tag, not its message:
\* the class, and for the base class its code.
KindByTag(e) ==
  IF e.name # "AutofillerError" THEN e.name
  ELSE CASE e.code = "timeout" -> "Timeout"
         [] e.code = "protocol_error" -> "ProtocolError"
         [] e.code = "request_failed" -> "NetworkFailure"
         [] OTHER -> "AutofillerError"

\* C8: a request aborted by its timeout fails with an error of kind Timeout,
\* and its type and tag tell that kind apart from every other failure: no
\* error of another cause reads as Timeout.
C8_TimeoutKindDistinct ==
  (pc = "done" /\ outcome.kind = "error")
  => (fault = "abort" <=> KindByTag(Err) = "Timeout")

\* C9: a 2xx response whose body is not valid JSON fails with an error of
\* kind ProtocolError, not with a network-failure error or a result.
C9_MalformedSuccessBody ==
  (pc = "done" /\ IsPresent(resp) /\ ok(Get(resp))
     /\ IsPresent(body) /\ Get(body).tag = "notjson")
  => (outcome.kind = "error" /\ KindByTag(Err) = "ProtocolError")

\* C10: a request that got no response and was not aborted by the timeout
\* fails with an AutofillerError of code request_failed; an error classified
\* from an HTTP status reaches the caller as classified (its class from the
\* status, its message the server's or the reason phrase) and is not
\* wrapped into a request_failed error.
C10_NetworkFailureWrapped ==
  /\ (pc = "done" /\ fault = "network")
     => /\ outcome.kind = "error"
        /\ Err.name = "AutofillerError"
        /\ Err.code = "request_failed"
        /\ requests >= 1
  /\ (NonSuccessDone /\ Get(body).tag # "null")
     => /\ outcome.kind = "error"
        /\ Err.name = KindForStatus(Get(resp))
        /\ Err.message \in {statusText(Get(resp))} \cup ServerMessages
        /\ (Err.code = "request_failed" => Get(body).code = Some("request_failed"))

C10_Witness ==
  /\ pc = "done" /\ fault = "network" /\ op = "extract"
  /\ outcome.kind = "error" /\ Err.code = "request_failed"
  /\ Err.message = "Request failed: fetch failed"

\* C11: in waitForJob, a status request that fails (a non-2xx answer, the
\* abort timer, a network failure) ends the call with the very error
\* request() threw for it: the call is over (no sleep, no further request:
\* the failed request is the one after the polls seen so far), and the
\* error is not replaced by job_timeout.
C11_StatusRequestFailureEndsWait ==
  /\ (op = "waitForJob" /\ fault = "network")
     => /\ pc = "done"
        /\ outcome = Thrown(AutofillerError("Request failed: fetch failed",
                                            "request_failed"))
        /\ requests = Len(seen) + 1
  /\ (op = "waitForJob" /\ fault = "abort")
     => /\ pc = "done"
        /\ outcome = Thrown(AutofillerError("Request timed out", "timeout"))
        /\ requests = Len(seen) + 1
  /\ (op = "waitForJob" /\ IsPresent(resp) /\ ~ok(Get(resp)) /\ IsPresent(body))
     => /\ pc = "done"
        /\ outcome = Thrown(RequestResult(Get(resp), Get(body)).error)
        /\ Err.code # "job_timeout"
        /\ (Get(body).tag # "null" => Err.name = KindForStatus(Get(resp)))
        /\ requests = Len(seen) + 1

\* Two polls answered pending, then the third status request is answered
\* 429: the call ends with the RateLimitError after 3 requests.
C11_Witness ==
  /\ op = "waitForJob" /\ pc = "done" /\ Len(seen) = 2 /\ requests = 3
  /\ resp = Some(429) /\ outcome.kind = "error"
  /\ Err.name = "RateLimitError"

\* C12: validation comes before the network.  A constructor call without an
\* API key (missing or empty) has thrown ValidationError and no client
\* exists to send anything; extract and extractAsync called with a Buffer
\* and no filename (missing or empty) end with ValidationError; in both
\* cases no HTTP request was made.
C12_ValidationBeforeNetwork ==
  /\ ApiKeyMissing(given)
     => /\ op = "constructor" /\ pc = "done"
        /\ outcome.kind = "error"
        /\ Err.name = "ValidationError" /\ Err.code = "validation_error"
        /\ requests = 0 /\ sent = << >>
  /\ ( /\ op \in {"extract", "extractAsync"}
       /\ Get(passed).file.kind = "buffer"
       /\ Get(passed).filename \in {Absent, Some("")} )
     => /\ pc = "done"
        /\ outcome.kind = "error"
        /\ Err.name = "ValidationError" /\ Err.code = "validation_error"
        /\ requests = 0 /\ sent = << >>

\* extractAsync was called with a Buffer and no filename.
C12_Witness ==
  /\ op = "extractAsync" /\ pc = "done"
  /\ Get(passed).file.kind = "buffer" /\ Get(passed).filename = Absent
  /\ outcome.kind = "error" /\ Err.message = "filename is required when file is a Buffer"
  /\ requests = 0

\* C13: the configuration of a constructed client is the given one with
\* each omitted optional field replaced by its default (base URL
\* https://api.autofiller.dev/v1, timeout 30000 ms, 3 retries) and each
\* given field kept, and it is so in every later state: no operation
\* changes it.
C13_ConfigResolvedAndFrozen ==
  ~ApiKeyMissing(given)
  => /\ config.apiKey = Get(given.apiKey)
     /\ config.baseUrl = IF given.baseUrl = Absent
                         THEN "https://api.autofiller.dev/v1"
                         ELSE Get(given.baseUrl)
     /\ config.timeout = IF given.timeout = Absent THEN 30000
                         ELSE Get(given.timeout)
     /\ config.maxRetries = IF given.maxRetries = Absent THEN 3
                            ELSE Get(given.maxRetries)

\* A client given maxRetries 0 and its own base URL has finished a
\* waitForJob call of two requests.
C13_Witness ==
  /\ given.maxRetries = Some(0) /\ config.maxRetries = 0
  /\ config.baseUrl = "https://self.hosted/v1"
  /\ op = "waitForJob" /\ pc = "done" /\ requests = 2

\* C14: every request made by extract, extractAsync, getJob, waitForJob,
\* listDomainPacks and getDomainPack carries the header
\* Authorization: Bearer <the configured API key>; a request made by
\* health carries no Authorization header.
C14_AuthorizationOnAllButHealth ==
  /\ Len(sent) = requests
  /\ \A i \in 1..Len(sent) :
       sent[i].authorization =
         IF op = "health" THEN Absent
         ELSE Some("Bearer " \o Get(given.apiKey))

\* The second status request of a waitForJob call carries the key.
C14_Witness ==
  /\ op = "waitForJob" /\ Len(sent) = 2
  /\ sent[2].authorization = Some("Bearer sk_live")
  /\ sent[2].url = "https://api.autofiller.dev/v1/jobs/job_1"

\* The options part(s) of the body of the request an extract or
\* extractAsync call sent.
SentOptionsParts ==
  SelectSeq(Get(sent[1].body), LAMBDA f : f.name = "options")

\* The JSON object holding the options of `o` that count as set, language
\* counting as set when languageSet.
ExpectedOptionsJson(o, languageSet) ==
  JsonStringify(
    (IF o.includeConfidence = Absent THEN << >>
     ELSE << Pair("include_confidence",
                  IF Get(o.includeConfidence) THEN "true" ELSE "false") >>)
    \o (IF o.includeBoundingBoxes = Absent THEN << >>
        ELSE << Pair("include_bounding_boxes",
                     IF Get(o.includeBoundingBoxes) THEN "true" ELSE "false") >>)
    \o (IF languageSet THEN << Pair("language", "\"" \o Get(o.language) \o "\"") >>
        ELSE << >>))

\* C15 as stated: the body sent by extract / extractAsync has an options
\* part iff at least one of includeConfidence, includeBoundingBoxes,
\* language is given in the caller's options, and the part is the JSON
\* object of exactly the given ones.
C15_OptionsPartIffAnyGiven ==
  (op \in {"extract", "extractAsync"} /\ Len(sent) > 0)
  => LET o == Get(passed)
         anyGiven == \/ o.includeConfidence # Absent
                     \/ o.includeBoundingBoxes # Absent
                     \/ o.language # Absent
     IN /\ Len(SentOptionsParts) = IF anyGiven THEN 1 ELSE 0
        /\ anyGiven => SentOptionsParts[1].value
                          = ExpectedOptionsJson(o, o.language # Absent)

\* C15, amended: as above, with language counting only when it is a
\* non-empty string (an empty language is left out like an omitted one);
\* a false includeConfidence or includeBoundingBoxes counts.  The part is
\* never the empty object.
C15_OptionsPartIffAnySet ==
  (op \in {"extract", "extractAsync"} /\ Len(sent) > 0)
  => LET o == Get(passed)
         languageSet == o.language # Absent /\ o.language # Some("")
         anySet == \/ o.includeConfidence # Absent
                   \/ o.includeBoundingBoxes # Absent
                   \/ languageSet
     IN /\ Len(SentOptionsParts) = IF anySet THEN 1 ELSE 0
        /\ anySet => /\ SentOptionsParts[1].value = ExpectedOptionsJson(o, languageSet)
                     /\ SentOptionsParts[1].value # "{}"

\* includeConfidence false and language en were sent as one JSON object.
C15_Witness ==
  /\ op = "extract" /\ Len(sent) = 1
  /\ Get(passed).includeConfidence = Some(FALSE)
  /\ Get(passed).includeBoundingBoxes = Absent
  /\ Get(passed).language = Some("en")
  /\ Len(SentOptionsParts) = 1
  /\ SentOptionsParts[1].value = "{\"include_confidence\":false,\"language\":\"en\"}"

\* C16: the caller's options object is, during and after an extract or
\* extractAsync call (returned or failed), what it was when it was passed.
C16_OptionsNotModified ==
  options = passed

\* An extract call without a filename (one is derived for the file part)
\* has returned.
C16_Witness ==
  /\ op = "extract" /\ pc = "done" /\ outcome.kind = "ok"
  /\ passed # Absent /\ Get(passed).filename = Absent
  /\ Get(sent[1].body)[1].filename = Some("invoice.pdf")

\* A 2xx answer with a JSON object has arrived.
GotPayload ==
  IsPresent(resp) /\ ok(Get(resp)) /\ IsPresent(body) /\ Get(body).tag = "object"

\* 2024-01-15T10:00Z in minutes since the epoch.
TenUtcMinutes == ((19737 * 24) + 10) * 60

\* C17: normalizing a wire extraction result is lossless and total.  Every
\* extract call answered 2xx with a result object returns; the returned
\* result holds each wire field unchanged, present or absent (id, status,
\* domain_pack, data, confidence, bounding_boxes, warnings), each metadata
\* field copied when present and defaulted when absent; a created_at that
\* is a date appears as that instant, however its offset is written; with
\* every optional field absent the result has pages 0, processingTimeMs 0,
\* modelVersion "unknown" and a valid createdAt.
C17_NormalizationLosslessAndTotal ==
  (op = "extract" /\ GotPayload)
  => /\ pc = "done"
     /\ outcome.kind = "ok"
     /\ LET w == LastWire
            v == Get(outcome.value)
        IN /\ NormalizedFrom(w, v)
           /\ w \in {FullResult(TenUtc), FullResult(NoonPlusTwo)}
              => /\ v.metadata = [pages |-> 2, processingTimeMs |-> 350,
                                  modelVersion |-> "v7",
                                  createdAt |-> [valid |-> TRUE, time |-> TenUtcMinutes]]
                 /\ v.warnings = Some(<< "low_contrast" >>)
                 /\ v.confidence = Some([total |-> 97])
           /\ w = BareResult
              => /\ v.metadata.pages = 0
                 /\ v.metadata.processingTimeMs = 0
                 /\ v.metadata.modelVersion = "unknown"
                 /\ v.metadata.createdAt.valid
                 /\ v.confidence = Absent /\ v.boundingBoxes = Absent
                 /\ v.warnings = Absent

\* extract returned the normalization of a result with every optional field
\* present, whose created_at is written with an offset of +02:00.
C17_Witness ==
  /\ op = "extract" /\ pc = "done" /\ outcome.kind = "ok" /\ GotPayload
  /\ LastWire = FullResult(NoonPlusTwo)
  /\ Get(outcome.value).metadata.createdAt.time = TenUtcMinutes

\* The payload of operation o carries a timestamp that is no date.
UnparsableTimestampIn(o, payload) ==
  LET inResult(w) == /\ w.metadata # Absent
                     /\ Get(w.metadata).created_at # Absent
                     /\ Get(Get(w.metadata).created_at).kind # "iso"
  IN CASE o = "health" -> payload.timestamp.kind # "iso"
       [] o = "extract" -> inResult(payload)
       [] o \in JobOps ->
            \/ payload.created_at.kind # "iso"
            \/ payload.completed_at # Absent /\ Get(payload.completed_at).kind # "iso"
            \/ payload.result # Absent /\ inResult(Get(payload.result))
       [] OTHER -> FALSE

\* C18: an operation whose 2xx payload carries a timestamp that cannot be
\* parsed (metadata created_at, job created_at or completed_at, health
\* timestamp) ends with an error of kind ProtocolError, never with a result.
C18_UnparsableTimestampIsProtocolError ==
  (pc = "done" /\ GotPayload /\ UnparsableTimestampIn(op, LastWire))
  => (outcome.kind = "error" /\ KindByTag(Err) = "ProtocolError")

\* C19: every JobStatus returned by getJob has a result iff its status is
\* completed, and an error iff its status is failed.
C19_ResultIffCompleted ==
  (op = "getJob" /\ pc = "done" /\ outcome.kind = "ok")
  => LET job == Get(outcome.value)
     IN /\ job.result # Absent <=> job.status = "completed"
        /\ job.error # Absent <=> job.status = "failed"

\* C20: one extract or extractAsync call makes at most 1 + maxRetries HTTP
\* requests, and all of them are the same request.
C20_RequestsWithinRetryBudget ==
  op \in {"extract", "extractAsync"}
  => /\ Len(sent) = requests
     /\ Len(sent) <= 1 + config.maxRetries
     /\ \A i \in 1..Len(sent) : sent[i] = sent[1]

\* An extract call of a client with maxRetries 0 failed on the network
\* after its one request.
C20_Witness ==
  /\ op = "extract" /\ pc = "done" /\ fault = "network"
  /\ config.maxRetries = 0 /\ Len(sent) = 1 /\ requests = 1

\* C23: within one waitForJob call at most one status request is in flight
\* at any time.  A status request is started only by the call itself or
\* when the sleep that followed the previous request's answer has elapsed
\* (request, sleep, request): while a request is in flight or its body is
\* being read, no request is started; the requests issued exceed the
\* answers taken by at most the one in flight.
C23_OneStatusRequestInFlight ==
  /\ [](op = "waitForJob"
        => /\ requests - Len(seen) \in {0, 1}
           /\ pc \in {"fetch", "body"} => requests = Len(seen) + 1
           /\ pc = "sleep" => requests = Len(seen))
  /\ [][ (op' = "waitForJob" /\ requests' # requests)
         => /\ requests' = requests + 1
            /\ pc' = "fetch"
            /\ \/ pc = "idle"
               \/ pc = "sleep" /\ sleepTimer = 0 /\ IsPresent(body) ]_vars

\* The second status request is in flight, after one answer and one sleep.
C23_Witness ==
  /\ op = "waitForJob" /\ pc = "fetch" /\ requests = 2 /\ Len(seen) = 1

\* C25: no timer outlives what armed it.  The abort timer of a request is
\* armed only while its fetch is pending: once the response has come, or
\* fetch has failed or was aborted, it is cleared, so it cannot fire after
\* the request ended; a poll sleep timer exists only while waitForJob
\* sleeps; when any operation is over neither timer is left.
C25_NoTimerOutlivesItsOperation ==
  /\ pc # "fetch" => reqTimer = NoTimer
  /\ pc # "sleep" => sleepTimer = NoTimer
  /\ pc = "done" => reqTimer = NoTimer /\ sleepTimer = NoTimer

\* A waitForJob call that slept at least once has ended on a response read
\* to its end.
C25_Witness ==
  /\ op = "waitForJob" /\ pc = "done" /\ requests >= 2
  /\ IsPresent(body) /\ reqTimer = NoTimer /\ sleepTimer = NoTimer

\* C27: waitForJob fails with job_timeout only after it has issued at
\* least one status request, whatever maxWait is.
C27_PolledBeforeJobTimeout ==
  ( /\ op = "waitForJob" /\ pc = "done" /\ outcome.kind = "error"
    /\ Err.code = "job_timeout" )
  => requests >= 1

\* C21: when an extract or extractAsync call with a path input is over
\* (returned, or failed on a non-2xx answer, a timeout, a network failure
\* or anything else), the file opened for the body is closed.
C21_FileClosedOnEveryExit ==
  ( /\ op \in {"extract", "extractAsync"} /\ pc = "done"
    /\ Get(passed).file.kind = "path" )
  => handle = "closed"

\* C26: the per-request timeout bounds the whole request, the reading of
\* the response body included: whatever the server does, a request that is
\* under way (fetch pending, or the body being read) ends.
C26_EveryRequestEnds ==
  (pc \in {"fetch", "body"}) ~> (pc \notin {"fetch", "body"})

\* C22: once the caller has raised its cancellation signal the operation
\* issues no further request; in particular a cancelled waitForJob starts no
\* status request after the cancellation.
C22_CancelStopsRequests ==
  [][cancelled => requests' = requests]_vars

\* What a waitForJob call that was answered the snapshots `answers`, in
\* this order, made of the last of them.
OwnDecision(answers) == JobDecision(transformJobStatus(answers[Len(answers)]))

\* C24: two concurrent waitForJob calls on one job id are independent under
\* every interleaving.  Each call counts its deadline from its own call
\* time; every job it looks at is the answer to one of its own requests,
\* and it made one request per answer (plus the one in flight or failed);
\* its outcome is decided by its own answers and its own time alone: the
\* result or the job's failure of its last answer, the error of its own
\* failed request, or job_timeout when none of its answers was terminal and
\* its own maxWait had elapsed.
C24_ConcurrentWaitsIndependent ==
  waits # << >>
  => \A i \in WaitIds :
       LET w == waits[i]
           n == Len(w.answered)
       IN /\ w.pc # "idle" => w.startTime = w.calledAt
          /\ w.seen = [k \in 1..n |-> transformJobStatus(w.answered[k])]
          /\ w.requests = n + (IF w.pc = "fetch" \/ w.requestFailed THEN 1 ELSE 0)
          /\ \A k \in 1..(n - 1) : w.answered[k].status = "pending"
          /\ w.pc = "sleep" => w.answered[n].status = "pending"
          /\ w.pc = "done"
             => \/ /\ w.requestFailed
                   /\ w.outcome.kind = "error"
                   /\ Get(w.outcome.error).code = "request_failed"
                \/ /\ ~w.requestFailed /\ n > 0
                   /\ OwnDecision(w.answered).act = "return"
                   /\ w.outcome = Returned(Get(OwnDecision(w.answered).value))
                \/ /\ ~w.requestFailed /\ n > 0
                   /\ OwnDecision(w.answered).act = "throw"
                   /\ w.outcome = Thrown(Get(OwnDecision(w.answered).error))
                \/ /\ ~w.requestFailed
                   /\ n > 0 => w.answered[n].status = "pending"
                   /\ w.outcome = Thrown(JobTimeoutError)
                   /\ w.endedAt - w.calledAt >= w.maxWait

\* Call 1 timed out on its own deadline after one poll; call 2, made
\* later, was answered completed and returned the result.
C24_Witness ==
  /\ waits # << >>
  /\ waits[1].pc = "done" /\ waits[2].pc = "done"
  /\ waits[2].calledAt > waits[1].calledAt
  /\ waits[1].outcome = Thrown(JobTimeoutError) /\ waits[1].requests = 1
  /\ waits[2].outcome.kind = "ok" /\ waits[2].requests = 2
  /\ waits[2].endedAt > waits[1].endedAt

\* The positions of sequence q whose entry is about file f.
AboutFile(q, f) == { k \in 1..Len(q) : q[k].file = f }

\* The extract calls of processBatch that have not settled.
InFlight == Cardinality({ k \in 1..Len(extracted) : extracted[k].outcome = "inflight" })

\* C28: in processBatch with concurrency >= 1 no file is extracted twice,
\* and when processBatch has resolved every input file was extracted
\* exactly once and results holds exactly one entry for it.
C28_EachFileOnce ==
  concurrency >= 1
  => /\ \A k \in 1..Len(files) :
          Cardinality(AboutFile(extracted, files[k])) <= 1
     /\ batch = "resolved"
        => /\ Len(results) = Len(files)
           /\ \A k \in 1..Len(files) :
                /\ Cardinality(AboutFile(extracted, files[k])) = 1
                /\ Cardinality(AboutFile(results, files[k])) = 1

\* C29: in processBatch the extract calls in flight never exceed
\* min(concurrency, number of files), and an extraction is started only by
\* the call of processBatch or in the step in which an earlier one of the
\* same worker settled, so that the number in flight does not grow.
C29_InFlightWithinConcurrency ==
  /\ [](/\ InFlight <= concurrency
        /\ InFlight <= Len(files)
        /\ InFlight = Cardinality({ w \in DOMAIN workers : workers[w].pc = "await" }))
  /\ [][ Len(extracted') > Len(extracted)
         => \/ batch = "none"
            \/ /\ Len(extracted') = Len(extracted) + 1
               /\ InFlight' = InFlight
               /\ \E w \in DOMAIN workers :
                    /\ workers[w].pc = "await"
                    /\ extracted'[workers[w].at].outcome # "inflight"
                    /\ workers'[w].at = Len(extracted') ]_vars

\* Two of three files are in flight under concurrency 2, the third waits.
C29_Witness ==
  /\ batch = "pending" /\ concurrency = 2 /\ Len(files) = 3
  /\ InFlight = 2 /\ Len(queue) = 1

\* C30: a failing extraction never stops the batch.  Every extract call
\* that threw has left an entry with success = false and the error's
\* message; the worker is not stopped by it (it is waiting on its next
\* file or done because the queue was empty); the batch never rejects, is
\* resolved only with every worker done, and every call of processBatch
\* does resolve.
C30_FailureNeverStopsBatch ==
  /\ [](/\ batch # "rejected"
        /\ \A w \in DOMAIN workers : workers[w].pc \in {"await", "done"}
        /\ \A k \in 1..Len(extracted) :
             extracted[k].outcome = "threw"
             => Cardinality({ j \in AboutFile(results, extracted[k].file) :
                               /\ ~results[j].success
                               /\ results[j].error = Some("Request timed out") }) = 1
        /\ (\E w \in DOMAIN workers : workers[w].pc = "done") => Len(queue) = 0
        /\ batch = "resolved" => \A w \in DOMAIN workers : workers[w].pc = "done")
  /\ (batch = "pending") ~> (batch = "resolved")

\* The first of three files failed under concurrency 1, the other two were
\* extracted after it, and the batch has resolved.
C30_Witness ==
  /\ batch = "resolved" /\ concurrency = 1 /\ Len(files) = 3
  /\ Len(results) = 3
  /\ ~results[1].success /\ results[2].success /\ results[3].success

====
